---- MODULE Spec2Model ----
(***************************************************************************)
(* Fraud decision engine of main.py: the /check_fraud and /verify_pin      *)
(* handlers, the detectors they call, and the state they share: the        *)
(* transaction collection and the blacklist collection in the database,    *)
(* and the last_known_location map each server process keeps in memory.    *)
(***************************************************************************)
EXTENDS Integers, Sequences, FiniteSets, Bags, TLC

(* ---------------------------------------------------------------- bounds *)

\* At most this many documents in the transaction collection.
MaxTxns == 3

(* ------------------------------------------------------- program constants *)

None == "None"

\* location_lookup: the keys of the Geo Reference.
location_lookup == {"Chennai", "Mumbai", "Delhi", "Bangalore"}

\* geodesic(a, b).km for the coordinates of location_lookup: the distance on
\* the WGS-84 ellipsoid, in whole km (rounded down).
geodesic(a, b) ==
    LET p == {a, b} IN
    IF a = b THEN 0
    ELSE IF p = {"Chennai", "Mumbai"} THEN 1031
    ELSE IF p = {"Chennai", "Delhi"} THEN 1748
    ELSE IF p = {"Delhi", "Mumbai"} THEN 1144
    ELSE IF p = {"Bangalore", "Chennai"} THEN 290
    ELSE IF p = {"Bangalore", "Mumbai"} THEN 843
    ELSE 1732

BLACKLISTED_IPS == {"203.0.113.5", "198.51.100.10", "45.33.32.156"}

\* Defaults of detect_behavioral_anomaly and detect_geo_drift.
window_size == 5
\* z_thresh = 2.5 as the fraction z_thresh_num / z_thresh_den.
z_thresh_num == 5
z_thresh_den == 2
max_km == 500

(* ------------------------------------------------------------ input domains *)

TransactionIds == {"t1", "t2"}
\* Amounts in hundredths: 0.10, 0.20 and 1.00.
Amounts == {10, 20, 100}
Locations == {"Atlantis", "Chennai", "Mumbai"}
CardTypes == {"visa", "amex"}
Recipients == {"r1", "r2"}
\* The x-forwarded-for header, already split on ","; <<>> is an absent header.
ForwardedHeaders == {<<>>, <<"203.0.113.5", "10.0.0.1">>}
ClientHosts == {"10.0.0.1"}
\* The authorization header as <<scheme, rest>>; <<>> is an absent header.
AuthHeaders == {<<>>, <<"Bearer ", "acc1">>}
Pins == {"1234", "4321"}
Accounts == {"acc1", "acc2", "ghost"}
\* The server processes that share the database.
Workers == {"w1", "w2"}
\* Values datetime.now() can return; NoTime stands for an absent field.
Times == {1, 2}
NoTime == 0
\* The one value it returns while the clock stands still.
Instant == {1}

\* class Transaction: the request body of /check_fraud. Every request carries
\* the same timestamp and currency, which are left out.
AllTransactions ==
    [transaction_id : TransactionIds, amount : Amounts, location : Locations,
     card_type : CardTypes, recipient_account : Recipients]

BaseTransaction ==
    [transaction_id |-> "t1", amount |-> 10, location |-> "Atlantis",
     card_type |-> "visa", recipient_account |-> "r1"]

\* The part of a Request the handlers read.
Request == [forwarded : ForwardedHeaders, host : ClientHosts, authorization : AuthHeaders]

\* The fields of t that differ from BaseTransaction.
Changed(t) == {f \in DOMAIN t : t[f] # BaseTransaction[f]}

\* Calls of /check_fraud as <<transaction, request>>: BaseTransaction from a
\* clean address, and every call that differs from it in one transaction field
\* or in the originating address; the authorization header is free.
CheckFraudCalls ==
    {c \in AllTransactions \X Request :
        Cardinality(Changed(c[1])) + (IF c[2].forwarded # <<>> THEN 1 ELSE 0) <= 1}

\* The calls among them that the challenge protocol reads: those that vary the
\* identifier, the recipient or the originating address, without an
\* authorization header.
ChallengeCalls ==
    {c \in CheckFraudCalls :
        /\ Changed(c[1]) \subseteq {"transaction_id", "recipient_account"}
        /\ c[2].authorization = <<>>}

\* class PinVerification: the request body of /verify_pin. Of its transaction
\* the handler reads the identifier and the recipient; the other fields are
\* those of BaseTransaction.
PinVerification ==
    [account : Accounts, pin : Pins,
     transaction : {t \in AllTransactions : Changed(t) \subseteq {"transaction_id"}
                                            \/ Changed(t) \subseteq {"recipient_account"}}]

\* The verifications one account holder submits.
OwnerPinVerification == {p \in PinVerification : p.account = "acc1"}

(* ------------------------------------------------------------------- state *)

VARIABLES
    collection,            \* the transaction collection, in insertion order
    blacklist_collection,  \* the blacklist collection, a bag of documents
    last_known_location,   \* card_type -> location, None where no key
    peer_last_known_location,  \* the same map in a second server process
    ret,                   \* what the handler call that ran last returned
    sms,                   \* the notifications that call sent
    inflight               \* worker -> the verify_pin call it is in the middle of

vars == <<collection, blacklist_collection, last_known_location,
          peer_last_known_location, ret, sms, inflight>>

(* --------------------------------------------------------- pure functions *)

\* hash_password: SHA-256 hex digest, collision-free on the inputs used here.
hash_password(password) == <<"sha256", password>>

verify_password(password, hashed_password) ==
    hash_password(password) = hashed_password

\* The user directory: the documents signup stored for acc1 and acc2.
users_collection ==
    { [account |-> "acc1", phone |-> "ph1", pin |-> hash_password("1234")],
      [account |-> "acc2", phone |-> "ph2", pin |-> hash_password("4321")] }

\* users_collection.find_one({"account": account}): the set of the document
\* found, empty when there is none.
find_user(account) == {u \in users_collection : u.account = account}

\* send_sms_notification: the message that is printed.
send_sms_notification(phone, message) == <<[phone |-> phone, message |-> message]>>

RECURSIVE SumSeq(_)
SumSeq(s) == IF s = <<>> THEN 0 ELSE Head(s) + SumSeq(Tail(s))

\* s[-n:]
LastN(s, n) == IF Len(s) <= n THEN s ELSE SubSeq(s, Len(s) - n + 1, Len(s))

(* amount: float. An amount is written here in hundredths (10 is 0.10) and
   is the double nearest to that decimal. A double is [man, exp]: man is its
   53-bit significand as a sequence of bits, first bit 1, and its value is
   man * 2^exp. Naturals too wide for an integer are sequences of bits,
   most significant first. Amounts are positive and at most 2^20 hundredths. *)

\* Bits of the significand of a double.
Precision == 53

RECURSIVE Bits(_)
Bits(n) == IF n = 0 THEN <<>> ELSE Append(Bits(n \div 2), n % 2)

Zeros(k) == [i \in 1..k |-> 0]

\* b without its leading zeros.
Strip(b) ==
    LET ones == {i \in 1..Len(b) : b[i] = 1}
    IN  IF ones = {} THEN <<>>
        ELSE SubSeq(b, CHOOSE i \in ones : \A j \in ones : i <= j, Len(b))

\* Arithmetic on bit sequences goes limb by limb: a limb is the natural of
\* LimbBits bits, small enough to add and to divide as an integer.
LimbBits == 24

LimbBase == 2^LimbBits

\* The natural of a sequence of at most LimbBits bits.
LimbOf(b) == SumSeq([i \in 1..Len(b) |-> b[i] * 2^(Len(b) - i)])

\* b as k limbs, most significant first.
Limbs(b, k) ==
    LET p == Zeros(k * LimbBits - Len(b)) \o b
    IN  SubSeq([j \in 1..k |-> LimbOf(SubSeq(p, (j - 1) * LimbBits + 1, j * LimbBits))],
               1, k)

\* The bits of the limbs ls, without leading zeros.
BitsOf(ls) ==
    Strip([i \in 1..(Len(ls) * LimbBits) |->
              (ls[(i - 1) \div LimbBits + 1]
                   \div 2^(LimbBits - 1 - ((i - 1) % LimbBits))) % 2])

\* The carry out of the limbs j, j+1, ... of xs + ys.
RECURSIVE Carry(_, _, _)
Carry(xs, ys, j) ==
    IF j > Len(xs) THEN 0 ELSE (xs[j] + ys[j] + Carry(xs, ys, j + 1)) \div LimbBase

AddBits(x, y) ==
    LET n == (IF Len(x) > Len(y) THEN Len(x) ELSE Len(y)) + 1
        k == (n + LimbBits - 1) \div LimbBits
        xs == Limbs(x, k)
        ys == Limbs(y, k)
    IN  BitsOf(SubSeq([j \in 1..k |-> (xs[j] + ys[j] + Carry(xs, ys, j + 1)) % LimbBase],
                      1, k))

\* The remainder of the first j limbs of ls on division by the small d.
RECURSIVE Remainder(_, _, _)
Remainder(ls, d, j) ==
    IF j = 0 THEN 0 ELSE (Remainder(ls, d, j - 1) * LimbBase + ls[j]) % d

\* Long division of b by d: <<quotient, remainder>>.
LongDiv(b, d) ==
    LET k == (Len(b) + LimbBits - 1) \div LimbBits
        ls == Limbs(b, k)
    IN  <<BitsOf(SubSeq([j \in 1..k |-> (Remainder(ls, d, j - 1) * LimbBase + ls[j]) \div d],
                        1, k)),
          Remainder(ls, d, k)>>

\* Round to nearest, ties to even: the double nearest to (b + f) * 2^e, for
\* the natural b of more than Precision bits and a fraction 0 <= f < 1 that
\* is nonzero exactly when sticky.
RoundToDouble(b, sticky, e) ==
    LET man == SubSeq(b, 1, Precision)
        rest == SubSeq(b, Precision + 1, Len(b))
        below == sticky \/ \E i \in 2..Len(rest) : rest[i] = 1
        up == rest[1] = 1 /\ (below \/ man[Precision] = 1)
        inc == IF up THEN AddBits(man, <<1>>) ELSE man
    IN  IF Len(inc) > Precision
        THEN [man |-> SubSeq(inc, 1, Precision), exp |-> e + Len(rest) + 1]
        ELSE [man |-> inc, exp |-> e + Len(rest)]

\* The double the request's amount is parsed to: the nearest to a / 100.
float64(a) ==
    LET qr == LongDiv(Bits(a) \o Zeros(62), 100)
    IN  RoundToDouble(qr[1], qr[2] # 0, -62)

\* x + y in double arithmetic.
float_add(x, y) ==
    LET e == IF x.exp < y.exp THEN x.exp ELSE y.exp
    IN  RoundToDouble(AddBits(x.man \o Zeros(x.exp - e) \o <<0>>,
                              y.man \o Zeros(y.exp - e) \o <<0>>), FALSE, e - 1)

\* x / n in double arithmetic, for a small natural n.
float_div(x, n) ==
    LET qr == LongDiv(x.man \o Zeros(10), n)
    IN  RoundToDouble(qr[1], qr[2] # 0, x.exp - 10)

\* np.add.reduce over doubles: fewer than 8 of them are added in order.
RECURSIVE float_sum(_)
float_sum(xs) ==
    IF Len(xs) = 1 THEN xs[1]
    ELSE float_add(float_sum(SubSeq(xs, 1, Len(xs) - 1)), xs[Len(xs)])

\* np.mean
np_mean(xs) == float_div(float_sum(xs), Len(xs))

\* n copies of x.
RECURSIVE Copies(_, _)
Copies(x, n) == IF n = 0 THEN <<>> ELSE Append(Copies(x, n - 1), x)

\* The amounts requests carry in any of the specifications below.
AllAmounts == Amounts \cup {11}

\* Whether np.mean of n copies of the amount a is that amount again. The sum of
\* the copies is rounded after every addition and the quotient once more, so
\* for some a and n the mean is a neighbouring double (three times 0.10,
\* five times 0.11). The @@ tabulates the function, so that it is computed
\* once.
mean_of_copies_is_exact ==
    [a \in AllAmounts, n \in 2..window_size |->
        LET x == float64(a) IN np_mean(Copies(x, n)) = x] @@ <<>>

\* detect_behavioral_anomaly on the amounts of past_txns.
\* A window of n copies of one amount a: where np.mean returns a, every
\* deviation is 0.0 and so is std, and z_score is 0. Where it returns a
\* neighbour m of a, every deviation is a - m, std is |a - m| up to rounding,
\* z_score is about 1 for a itself and above 10^9 for every other amount.
\* Any other window, with n amounts of sum S and sum of squares Q: mean = S/n
\* and std^2 = (n*Q - S*S)/n^2, so |current - mean| / std > 5/2 iff
\* 4*(n*current - S)^2 > 25*(n*Q - S*S); no amount used here is near enough
\* to the threshold for rounding to decide.
detect_behavioral_anomaly(past_amounts, current_amount) ==
    LET amounts == LastN(past_amounts, window_size)
        n == Len(amounts)
        S == SumSeq(amounts)
        Q == SumSeq([i \in 1..n |-> amounts[i] * amounts[i]])
        var == n * Q - S * S
        dev == n * current_amount - S
    IN  IF n < 2 THEN FALSE
        ELSE IF var = 0
        THEN IF mean_of_copies_is_exact[amounts[1], n] THEN FALSE
             ELSE current_amount # amounts[1]
        ELSE z_thresh_den * z_thresh_den * dev * dev
                 > z_thresh_num * z_thresh_num * var

\* detect_geo_drift returning True where it finds no baseline to measure from.
detect_geo_drift_flags_without_baseline(lkl, card_type, current_location) ==
    IF current_location \notin location_lookup THEN FALSE
    ELSE LET last_location == lkl[card_type] IN
         IF last_location = None \/ last_location \notin location_lookup THEN TRUE
         ELSE geodesic(last_location, current_location) > max_km

\* detect_geo_drift measuring with geodesic(...).m in place of .km.
detect_geo_drift_in_metres(lkl, card_type, current_location) ==
    IF current_location \notin location_lookup THEN FALSE
    ELSE LET last_location == lkl[card_type] IN
         IF last_location = None \/ last_location \notin location_lookup THEN FALSE
         ELSE geodesic(last_location, current_location) * 1000 > max_km

\* detect_geo_drift, reading the map lkl.
detect_geo_drift(lkl, card_type, current_location) ==
    IF current_location \notin location_lookup THEN FALSE
    ELSE LET last_location == lkl[card_type] IN
         IF last_location = None \/ last_location \notin location_lookup THEN FALSE
         ELSE geodesic(last_location, current_location) > max_km

\* get_client_ip
get_client_ip(request) ==
    IF request.forwarded # <<>> THEN Head(request.forwarded) ELSE request.host

\* blacklist_collection.find_one({"type": "account", "value": value}) is truthy.
blacklist_find_one(bl, value) ==
    \E d \in BagToSet(bl) : d.type = "account" /\ d.value = value

\* collection.find({"card_type": card_type}).sort("timestamp", 1), as amounts.
\* Every request of this model carries the same timestamp, so the sort keeps
\* the insertion order.
past_amounts_of(coll, card_type) ==
    LET past == SelectSeq(coll, LAMBDA d : d.card_type = card_type)
    IN  [i \in 1..Len(past) |-> past[i].amount]

(* ---------------------------------------------------------------- handlers *)

Init ==
    /\ collection = <<>>
    /\ blacklist_collection = EmptyBag
    /\ last_known_location = [c \in CardTypes |-> None]
    /\ peer_last_known_location = [c \in CardTypes |-> None]
    /\ ret = [op |-> "none"]
    /\ sms = <<>>
    /\ inflight = [w \in Workers |-> [pc |-> "idle"]]

\* The four signals of check_fraud, in the order it tests them.
ip_signal(client_ip) == client_ip \in BLACKLISTED_IPS

\* recipient_signal with the query on the wrong field of the transaction.
recipient_signal_wrong_field(bl, txn) == blacklist_find_one(bl, txn.transaction_id)

recipient_signal(bl, txn) == blacklist_find_one(bl, txn.recipient_account)

behavioral_signal(coll, txn) ==
    detect_behavioral_anomaly(past_amounts_of(coll, txn.card_type), txn.amount)

\* geo_signal with last_known_location assigned before the detector reads it.
geo_signal_after_update(lkl, txn) ==
    detect_geo_drift([lkl EXCEPT ![txn.card_type] = txn.location],
                     txn.card_type, txn.location)

geo_signal(lkl, txn) == detect_geo_drift(lkl, txn.card_type, txn.location)

\* The reasons check_fraud collects, in the order it appends them.
fraud_reasons(txn, client_ip, bl, coll, lkl) ==
    (IF ip_signal(client_ip)
        THEN << <<"Blacklisted IP Address: ", client_ip>> >> ELSE <<>>)
    \o (IF recipient_signal(bl, txn)
        THEN << <<"Blacklisted Recipient Account: ", txn.recipient_account>> >> ELSE <<>>)
    \o (IF behavioral_signal(coll, txn)
        THEN << <<"Abnormal Amount (Behavioral)">> >> ELSE <<>>)
    \o (IF geo_signal(lkl, txn)
        THEN << <<"Geo Drift Detected">> >> ELSE <<>>)

\* fraud_verdict with the geo-drift branch leaving is_fraud as it was.
fraud_verdict_geo_unset(txn, client_ip, bl, coll, lkl) ==
    \/ ip_signal(client_ip)
    \/ recipient_signal(bl, txn)
    \/ behavioral_signal(coll, txn)

\* is_fraud: set to True in each of the four branches.
fraud_verdict(txn, client_ip, bl, coll, lkl) ==
    \/ ip_signal(client_ip)
    \/ recipient_signal(bl, txn)
    \/ behavioral_signal(coll, txn)
    \/ geo_signal(lkl, txn)

\* transaction_doc with every transaction stored as approved.
transaction_doc_approved(txn, client_ip, is_fraud, reasons) ==
    [transaction_id |-> txn.transaction_id,
     amount |-> txn.amount,
     location |-> txn.location,
     card_type |-> txn.card_type,
     recipient_account |-> txn.recipient_account,
     client_ip |-> client_ip,
     is_fraud |-> is_fraud,
     fraud_reason |-> reasons,
     status |-> "approved",
     pin_verified |-> IF is_fraud THEN FALSE ELSE TRUE,
     verified_at |-> NoTime]

\* transaction_doc of check_fraud.
transaction_doc(txn, client_ip, is_fraud, reasons) ==
    [transaction_id |-> txn.transaction_id,
     amount |-> txn.amount,
     location |-> txn.location,
     card_type |-> txn.card_type,
     recipient_account |-> txn.recipient_account,
     client_ip |-> client_ip,
     is_fraud |-> is_fraud,
     fraud_reason |-> reasons,
     status |-> IF is_fraud THEN "pending" ELSE "approved",
     pin_verified |-> IF is_fraud THEN FALSE ELSE TRUE,
     verified_at |-> NoTime]

\* The alert of check_fraud: sent when the verdict is fraud and the
\* authorization header names a stored account.
fraud_alert(txn, request, is_fraud) ==
    IF is_fraud /\ request.authorization # <<>> /\ request.authorization[1] = "Bearer "
    THEN LET user == find_user(request.authorization[2]) IN
         IF user # {}
         THEN send_sms_notification((CHOOSE u \in user : TRUE).phone,
                  "FRAUD ALERT: Suspicious transaction detected")
         ELSE <<>>
    ELSE <<>>

\* update_last_known_location without the test of is_fraud.
update_last_known_location_always(lkl, txn, is_fraud) ==
    [lkl EXCEPT ![txn.card_type] = txn.location]

\* update_last_known_location keeping the baseline when the location is not
\* in location_lookup.
update_last_known_location_resolvable_only(lkl, txn, is_fraud) ==
    IF ~is_fraud /\ txn.location \in location_lookup
    THEN [lkl EXCEPT ![txn.card_type] = txn.location] ELSE lkl

\* last_known_location after check_fraud: the transaction's location under its
\* card_type if no fraud was found.
update_last_known_location(lkl, txn, is_fraud) ==
    IF ~is_fraud THEN [lkl EXCEPT ![txn.card_type] = txn.location] ELSE lkl

\* POST /check_fraud
check_fraud(txn, request) ==
    LET client_ip == get_client_ip(request)
        reasons == fraud_reasons(txn, client_ip, blacklist_collection, collection,
                                 last_known_location)
        is_fraud == fraud_verdict(txn, client_ip, blacklist_collection, collection,
                                  last_known_location)
    IN  /\ last_known_location' =
               update_last_known_location(last_known_location, txn, is_fraud)
        /\ collection' = Append(collection, transaction_doc(txn, client_ip, is_fraud, reasons))
        /\ sms' = fraud_alert(txn, request, is_fraud)
        /\ ret' = [op |-> "check_fraud", fraud |-> is_fraud, reasons |-> reasons]
        /\ UNCHANGED <<blacklist_collection, peer_last_known_location, inflight>>

\* A call of /check_fraud while the collection is below the bound.
CheckFraud(calls) ==
    /\ Len(collection) < MaxTxns
    /\ \E c \in calls : check_fraud(c[1], c[2])

\* The document verify_pin inserts into the blacklist.
blacklist_doc(pin_data) ==
    [type |-> "account",
     value |-> pin_data.transaction.recipient_account,
     reason |-> <<"Invalid PIN verification - potential fraud">>,
     blocked_by |-> pin_data.account]

\* blacklist_collection.insert_one(doc)
insert_one(bl, doc) == bl (+) SetToBag({doc})

\* The insert of the failed-PIN branch, given what its find_one found.
insert_unless(found, bl, pin_data) ==
    IF ~found THEN insert_one(bl, blacklist_doc(pin_data)) ELSE bl

\* blacklist_recipient without the find_one.
blacklist_recipient_unchecked(bl, pin_data) == insert_one(bl, blacklist_doc(pin_data))

\* The failed-PIN branch on the blacklist, run without interruption: find_one,
\* then insert_one unless an entry for the recipient was found.
blacklist_recipient(bl, pin_data) ==
    insert_unless(blacklist_find_one(bl, pin_data.transaction.recipient_account),
                  bl, pin_data)

\* update_one with a $set that leaves pin_verified out.
update_one_status_only(coll, transaction_id, now) ==
    LET hits == {i \in 1..Len(coll) : coll[i].transaction_id = transaction_id} IN
    IF hits = {} THEN coll
    ELSE LET first == CHOOSE i \in hits : \A j \in hits : i <= j IN
         [coll EXCEPT ![first] = [@ EXCEPT !.status = "approved", !.verified_at = now]]

\* update_one with a $set that also resets the verdict.
update_one_resets_verdict(coll, transaction_id, now) ==
    LET hits == {i \in 1..Len(coll) : coll[i].transaction_id = transaction_id} IN
    IF hits = {} THEN coll
    ELSE LET first == CHOOSE i \in hits : \A j \in hits : i <= j IN
         [coll EXCEPT ![first] =
             [@ EXCEPT !.pin_verified = TRUE, !.status = "approved", !.verified_at = now,
                       !.is_fraud = FALSE, !.fraud_reason = <<>>]]

\* collection.update_one({"transaction_id": id}, {"$set": {...}}): the first
\* document with this identifier is updated, none when there is none.
update_one(coll, transaction_id, now) ==
    LET hits == {i \in 1..Len(coll) : coll[i].transaction_id = transaction_id} IN
    IF hits = {} THEN coll
    ELSE LET first == CHOOSE i \in hits : \A j \in hits : i <= j IN
         [coll EXCEPT ![first] =
             [@ EXCEPT !.pin_verified = TRUE, !.status = "approved", !.verified_at = now]]

\* The three returns of verify_pin.
ret_user_not_found == [op |-> "verify_pin", success |-> FALSE, message |-> "User not found"]

ret_invalid_pin ==
    [op |-> "verify_pin", success |-> FALSE,
     message |-> "Invalid PIN. Transaction blocked and recipient blacklisted."]

ret_pin_verified ==
    [op |-> "verify_pin", success |-> TRUE,
     message |-> "PIN verified successfully. Transaction approved."]

\* verify_pin_no_user with the recipient blacklisted before the return.
verify_pin_no_user_blacklists(pin_data) ==
    /\ ret' = ret_user_not_found
    /\ sms' = <<>>
    /\ blacklist_collection' = blacklist_recipient(blacklist_collection, pin_data)
    /\ UNCHANGED collection

\* verify_pin when no user has the account.
verify_pin_no_user(pin_data) ==
    /\ ret' = ret_user_not_found
    /\ sms' = <<>>
    /\ UNCHANGED <<collection, blacklist_collection>>

\* verify_pin when the PIN is incorrect, for the user u.
verify_pin_incorrect(u, pin_data) ==
    /\ blacklist_collection' = blacklist_recipient(blacklist_collection, pin_data)
    /\ sms' = send_sms_notification(u.phone,
                  "FRAUD ALERT: Transaction was blocked due to incorrect PIN")
    /\ ret' = ret_invalid_pin
    /\ UNCHANGED collection

\* verify_pin when the PIN is correct, for the user u.
verify_pin_correct(u, pin_data, now) ==
    /\ collection' = update_one(collection, pin_data.transaction.transaction_id, now)
    /\ sms' = send_sms_notification(u.phone, "Transaction has been approved and processed")
    /\ ret' = ret_pin_verified
    /\ UNCHANGED blacklist_collection

\* POST /verify_pin
verify_pin(pin_data, now) ==
    LET user == find_user(pin_data.account) IN
    /\ UNCHANGED <<last_known_location, peer_last_known_location, inflight>>
    /\ IF user = {}
       THEN verify_pin_no_user(pin_data)
       ELSE LET u == CHOOSE x \in user : TRUE IN
            IF ~verify_password(pin_data.pin, u.pin)
            THEN verify_pin_incorrect(u, pin_data)
            ELSE verify_pin_correct(u, pin_data, now)

VerifyPin(verifications, times) ==
    \E pin_data \in verifications, now \in times : verify_pin(pin_data, now)

(* --------------------------------------------- verify_pin, database call by
   database call: two workers serve requests against the same database, and
   another worker's calls can fall between the find_one and the insert_one of
   the failed-PIN branch. *)

\* verify_pin up to and including blacklist_collection.find_one; the branches
\* that make no second blacklist call run to their return.
verify_pin_find(w, pin_data, now) ==
    LET user == find_user(pin_data.account) IN
    /\ inflight[w].pc = "idle"
    /\ IF user # {} /\ ~verify_password(pin_data.pin, (CHOOSE x \in user : TRUE).pin)
       THEN /\ inflight' = [inflight EXCEPT ![w] =
                   [pc |-> "insert", pin_data |-> pin_data,
                    found |-> blacklist_find_one(blacklist_collection,
                                  pin_data.transaction.recipient_account)]]
            /\ UNCHANGED <<collection, blacklist_collection, last_known_location,
                           peer_last_known_location, ret, sms>>
       ELSE verify_pin(pin_data, now)

\* The rest of the failed-PIN branch: insert_one, the alert, the return.
verify_pin_insert(w) ==
    /\ inflight[w].pc = "insert"
    /\ LET pin_data == inflight[w].pin_data
           u == CHOOSE x \in find_user(pin_data.account) : TRUE
       IN  /\ blacklist_collection' =
                  insert_unless(inflight[w].found, blacklist_collection, pin_data)
           /\ sms' = send_sms_notification(u.phone,
                         "FRAUD ALERT: Transaction was blocked due to incorrect PIN")
           /\ ret' = ret_invalid_pin
    /\ inflight' = [inflight EXCEPT ![w] = [pc |-> "idle"]]
    /\ UNCHANGED <<collection, last_known_location, peer_last_known_location>>

VerifyPinFind(verifications, times) ==
    \E w \in Workers, pin_data \in verifications, now \in times :
        verify_pin_find(w, pin_data, now)

VerifyPinInsert == \E w \in Workers : verify_pin_insert(w)

(* ---------------------------------------------------------- specifications *)

\* Scoring: every call of CheckFraudCalls, with the challenges of one account
\* holder.
Next == CheckFraud(CheckFraudCalls) \/ VerifyPin(OwnerPinVerification, Instant)

Spec == Init /\ [][Next]_vars

\* The challenge protocol: every verification, over the transactions of
\* ChallengeCalls.
ChallengeNext == CheckFraud(ChallengeCalls) \/ VerifyPin(PinVerification, Instant)

SpecChallenge == Init /\ [][ChallengeNext]_vars

\* Two workers: the challenge protocol with verify_pin taken database call by
\* database call, over the base transaction.
ConcurrentCalls == {c \in ChallengeCalls : Changed(c[1]) = {}}

ConcurrentVerifications ==
    {p \in PinVerification : p.account # "ghost" /\ Changed(p.transaction) = {}}

ConcurrentNext ==
    \/ CheckFraud(ConcurrentCalls)
    \/ VerifyPinFind(ConcurrentVerifications, Instant)
    \/ VerifyPinInsert

SpecConcurrent == Init /\ [][ConcurrentNext]_vars

(* ------------------------------------------------------------- properties *)

\* The document check_fraud inserted last.
LastDoc == collection[Len(collection)]

Docs == {collection[i] : i \in 1..Len(collection)}

Reasons(reasons) == {reasons[i] : i \in 1..Len(reasons)}

\* C1: every stored transaction with status "approved" has is_fraud false or
\* pin_verified true, and every stored transaction with status "pending" has
\* is_fraud true and pin_verified false.
C1_StatusInvariant ==
    \A d \in Docs :
        /\ d.status = "approved" => (~d.is_fraud \/ d.pin_verified)
        /\ d.status = "pending" => (d.is_fraud /\ ~d.pin_verified)

\* A flagged transaction approved by PIN next to one still pending.
C1_Witness ==
    /\ \E d \in Docs : d.status = "approved" /\ d.is_fraud /\ d.pin_verified
    /\ \E d \in Docs : d.status = "pending"

\* C2: right after check_fraud returns, the document it inserted is pending
\* with pin_verified false if the returned verdict is fraud, approved with
\* pin_verified true if it is not, and its is_fraud is the returned verdict.
C2_PersistedMatchesVerdict ==
    ret.op = "check_fraud" =>
        /\ Len(collection) > 0
        /\ LastDoc.is_fraud = ret.fraud
        /\ ret.fraud => (LastDoc.status = "pending" /\ LastDoc.pin_verified = FALSE)
        /\ ~ret.fraud => (LastDoc.status = "approved" /\ LastDoc.pin_verified = TRUE)

\* check_fraud has just returned a fraud verdict.
C2_Witness ==
    /\ ret.op = "check_fraud"
    /\ ret.fraud
    /\ LastDoc.status = "pending"

\* The four signals for the transaction and originating address stored in the
\* document new, on the state the call read, each with the reason it stands for.
SignalsFired(new) ==
    { <<new.client_ip \in BLACKLISTED_IPS, <<"Blacklisted IP Address: ", new.client_ip>> >>,
      <<\E e \in BagToSet(blacklist_collection) :
            e.type = "account" /\ e.value = new.recipient_account,
        <<"Blacklisted Recipient Account: ", new.recipient_account>> >>,
      <<detect_behavioral_anomaly(past_amounts_of(collection, new.card_type), new.amount),
        <<"Abnormal Amount (Behavioral)">> >>,
      <<detect_geo_drift(last_known_location, new.card_type, new.location),
        <<"Geo Drift Detected">> >> }

\* C3: check_fraud returns fraud = true exactly when one of the four signals
\* fires, and its reasons are one reason for each signal that fires and
\* nothing else; a call from a denylisted address with no other signal firing
\* returns that one reason and stores the transaction as pending.
C3_Step ==
    ret'.op = "check_fraud" =>
        LET new == collection'[Len(collection')]
            fired == {s \in SignalsFired(new) : s[1]}
        IN  /\ ret'.fraud = (fired # {})
            /\ Reasons(ret'.reasons) = {s[2] : s \in fired}
            /\ Len(ret'.reasons) = Cardinality(fired)
            /\ (fired = {<<TRUE, <<"Blacklisted IP Address: ", new.client_ip>> >>}) =>
                   /\ ret'.fraud = TRUE
                   /\ ret'.reasons = << <<"Blacklisted IP Address: ", new.client_ip>> >>
                   /\ new.status = "pending"

C3_VerdictIsUnionOfSignals == [][C3_Step]_vars

\* check_fraud has returned the denylisted address as its only reason.
C3_Witness ==
    /\ ret.op = "check_fraud"
    /\ ret.fraud
    /\ ret.reasons = << <<"Blacklisted IP Address: ", "203.0.113.5">> >>
    /\ LastDoc.client_ip = "203.0.113.5"
    /\ LastDoc.status = "pending"

\* C4: last_known_location changes only in a check_fraud call whose verdict is
\* non-fraud, and then only under the card_type of its transaction, to that
\* transaction's location; a check_fraud call whose verdict is fraud and every
\* verify_pin call leave the whole map unchanged.
C4_Step ==
    LET new == collection'[Len(collection')] IN
    /\ (ret'.op = "check_fraud" /\ ~ret'.fraud) =>
           last_known_location' =
               [c \in CardTypes |-> IF c = new.card_type THEN new.location
                                    ELSE last_known_location[c]]
    /\ (ret'.op = "check_fraud" /\ ret'.fraud) =>
           last_known_location' = last_known_location
    /\ ret'.op = "verify_pin" => last_known_location' = last_known_location

C4_BaselineAdvancesOnlyOnNonFraud == [][C4_Step]_vars

\* A flagged transaction has been approved by PIN and the baseline of its
\* card_type is still another, earlier location.
C4_Witness ==
    /\ ret = ret_pin_verified
    /\ \E d \in Docs :
           /\ d.is_fraud /\ d.status = "approved"
           /\ last_known_location[d.card_type] \notin {None, d.location}

\* The stored documents that are the transaction t.
StoredAs(t) == {i \in 1..Len(collection) : \A f \in DOMAIN t : collection[i][f] = t[f]}

\* The blacklist entries for the account value.
EntriesFor(bl, value) == {e \in BagToSet(bl) : e.type = "account" /\ e.value = value}

KnownAccounts == {u.account : u \in users_collection}

PinOf(account) == (CHOOSE u \in users_collection : u.account = account).pin

\* C5: a verify_pin call by an existing account on a stored pending
\* transaction, with the right PIN, leaves that transaction approved with
\* pin_verified true and the blacklist as it was; with a wrong PIN it leaves
\* the transaction's recipient in the blacklist and every stored transaction
\* as it was.
C5_Step(pin_data) ==
    LET flagged == {i \in StoredAs(pin_data.transaction) : collection[i].status = "pending"}
    IN  (pin_data.account \in KnownAccounts /\ flagged # {}) =>
            IF hash_password(pin_data.pin) = PinOf(pin_data.account)
            THEN /\ \A i \in flagged : /\ collection'[i].status = "approved"
                                        /\ collection'[i].pin_verified = TRUE
                 /\ blacklist_collection' = blacklist_collection
            ELSE /\ EntriesFor(blacklist_collection',
                               pin_data.transaction.recipient_account) # {}
                 /\ collection' = collection

C5_ChallengeOutcome ==
    [][\A pin_data \in PinVerification, now \in Times :
          verify_pin(pin_data, now) => C5_Step(pin_data)]_vars

\* The same outcome where the store holds the identifier of the submitted
\* transaction once: there update_one reaches the transaction verified.
ChallengeOutcomeForUniqueIdentifier ==
    \A pin_data \in PinVerification :
        Cardinality({i \in 1..Len(collection) :
            collection[i].transaction_id = pin_data.transaction.transaction_id}) = 1 =>
                \A now \in Times :
                    ~ENABLED (verify_pin(pin_data, now) /\ ~C5_Step(pin_data))

\* C6: the blacklist holds at most one entry for each (type, value).
C6_OneEntryPerValue ==
    \A e \in BagToSet(blacklist_collection) :
        /\ CopiesIn(e, blacklist_collection) = 1
        /\ \A f \in BagToSet(blacklist_collection) :
               (f.type = e.type /\ f.value = e.value) => f = e

\* acc2 has just failed the PIN for a recipient that acc1 had blacklisted: the
\* blacklist is still the one entry of acc1.
C6_Witness ==
    /\ ret = ret_invalid_pin
    /\ sms # <<>> /\ sms[1].phone = "ph2"
    /\ BagCardinality(blacklist_collection) = 1
    /\ \E e \in BagToSet(blacklist_collection) : e.blocked_by = "acc1"

\* C7: with two workers in failed-PIN verifications for one recipient, the
\* blacklist never holds two entries for the same (type, value).
C7_AtomicInsertIfAbsent ==
    \A value \in Recipients :
        BagCardinality([e \in EntriesFor(blacklist_collection, value)
                           |-> blacklist_collection[e]]) <= 1

\* C8: a failed PIN verification for a recipient that has a blacklist entry
\* leaves that entry with one more reason: two at least.
C8_Step(pin_data) ==
    LET value == pin_data.transaction.recipient_account IN
    (/\ pin_data.account \in KnownAccounts
     /\ hash_password(pin_data.pin) # PinOf(pin_data.account)
     /\ EntriesFor(blacklist_collection, value) # {}) =>
        \A e \in EntriesFor(blacklist_collection', value) : Len(e.reason) >= 2

C8_RepeatedTriggerAppendsReason ==
    [][\A pin_data \in PinVerification, now \in Times :
          verify_pin(pin_data, now) => C8_Step(pin_data)]_vars

\* C9: a verify_pin call for an account that is not in the user directory
\* returns a failure and leaves the transactions, the blacklist and
\* last_known_location as they were, and sends no notification.
C9_Step ==
    /\ ret'.success = FALSE
    /\ collection' = collection
    /\ blacklist_collection' = blacklist_collection
    /\ last_known_location' = last_known_location
    /\ sms' = <<>>

C9_UnknownAccountChangesNothing ==
    \A pin_data \in PinVerification :
        pin_data.account \notin KnownAccounts =>
            \A now \in Times : ~ENABLED (verify_pin(pin_data, now) /\ ~C9_Step)

\* An unknown account has been turned away while a transaction is pending.
C9_Witness ==
    /\ ret = ret_user_not_found
    /\ sms = <<>>
    /\ \E d \in Docs : d.status = "pending"

\* C10: no step removes a blacklist entry, and every check_fraud for a
\* transaction whose recipient has an entry returns fraud = true with the
\* "Blacklisted Recipient Account" reason and stores the transaction as pending.
C10_Step ==
    /\ \A e \in BagToSet(blacklist_collection) :
           CopiesIn(e, blacklist_collection') >= CopiesIn(e, blacklist_collection)
    /\ ret'.op = "check_fraud" =>
           LET new == collection'[Len(collection')] IN
           EntriesFor(blacklist_collection, new.recipient_account) # {} =>
               /\ ret'.fraud = TRUE
               /\ <<"Blacklisted Recipient Account: ", new.recipient_account>>
                      \in Reasons(ret'.reasons)
               /\ new.status = "pending"

C10_DenylistPermanentAndEffective == [][C10_Step]_vars

\* A transaction has been flagged for its blacklisted recipient alone.
C10_Witness ==
    /\ ret.op = "check_fraud"
    /\ ret.reasons = << <<"Blacklisted Recipient Account: ", LastDoc.recipient_account>> >>
    /\ LastDoc.status = "pending"
    /\ EntriesFor(blacklist_collection, LastDoc.recipient_account) # {}

(* ------------------------------------------------ the clock of verify_pin *)

\* datetime.now() of the $set: never earlier than a time already stored.
Now == {now \in Times : \A d \in Docs : d.verified_at <= now}

\* The challenge protocol of one account holder while the clock runs.
ClockNext ==
    \/ CheckFraud(ChallengeCalls)
    \/ \E now \in Now : VerifyPin(OwnerPinVerification, {now})

SpecClock == Init /\ [][ClockNext]_vars

\* C11: a stored transaction that a verify_pin call has updated (its
\* verified_at is set) is not changed in any field by any later call.
C11_Step ==
    \A i \in 1..Len(collection) :
        collection[i].verified_at # NoTime => collection'[i] = collection[i]

C11_MutatedAtMostOnce == [][C11_Step]_vars

(* ------------------------------------------- collaborators that raise *)

\* What the caller of check_fraud gets when an exception leaves the handler:
\* nothing in check_fraud catches one, so the framework answers 500.
ret_unhandled == [op |-> "check_fraud", status_code |-> 500]

\* The return of the except clause of verify_pin.
ret_internal_error ==
    [op |-> "verify_pin", success |-> FALSE, message |-> "Internal server error"]

\* check_fraud when send_sms_notification raises: the call reaches it only
\* with a fraud verdict and a stored account in the authorization header,
\* after insert_one.
check_fraud_notifier_raises(txn, request) ==
    LET client_ip == get_client_ip(request)
        reasons == fraud_reasons(txn, client_ip, blacklist_collection, collection,
                                 last_known_location)
        is_fraud == fraud_verdict(txn, client_ip, blacklist_collection, collection,
                                  last_known_location)
    IN  /\ fraud_alert(txn, request, is_fraud) # <<>>
        /\ last_known_location' =
               update_last_known_location(last_known_location, txn, is_fraud)
        /\ collection' = Append(collection, transaction_doc(txn, client_ip, is_fraud, reasons))
        /\ sms' = <<>>
        /\ ret' = ret_unhandled
        /\ UNCHANGED <<blacklist_collection, peer_last_known_location, inflight>>

\* check_fraud when collection.insert_one raises: the lines before it have run.
check_fraud_insert_raises(txn, request) ==
    LET client_ip == get_client_ip(request)
        is_fraud == fraud_verdict(txn, client_ip, blacklist_collection, collection,
                                  last_known_location)
    IN  /\ last_known_location' =
               update_last_known_location(last_known_location, txn, is_fraud)
        /\ sms' = <<>>
        /\ ret' = ret_unhandled
        /\ UNCHANGED <<collection, blacklist_collection, peer_last_known_location, inflight>>

\* verify_pin when send_sms_notification raises, in either branch that calls
\* it: the database call before it has run, the except clause returns.
verify_pin_notifier_raises(pin_data, now) ==
    LET user == find_user(pin_data.account) IN
    /\ user # {}
    /\ IF ~verify_password(pin_data.pin, (CHOOSE x \in user : TRUE).pin)
       THEN /\ blacklist_collection' = blacklist_recipient(blacklist_collection, pin_data)
            /\ UNCHANGED collection
       ELSE /\ collection' = update_one(collection, pin_data.transaction.transaction_id, now)
            /\ UNCHANGED blacklist_collection
    /\ sms' = <<>>
    /\ ret' = ret_internal_error
    /\ UNCHANGED <<last_known_location, peer_last_known_location, inflight>>

\* The calls that vary the location and the originating address.
FaultCalls == {c \in CheckFraudCalls : Changed(c[1]) \subseteq {"location"}}

FaultVerifications == {p \in OwnerPinVerification : Changed(p.transaction) = {}}

CheckFraudNotifierRaises ==
    /\ Len(collection) < MaxTxns
    /\ \E c \in FaultCalls : check_fraud_notifier_raises(c[1], c[2])

CheckFraudInsertRaises == \E c \in FaultCalls : check_fraud_insert_raises(c[1], c[2])

VerifyPinNotifierRaises ==
    \E pin_data \in FaultVerifications, now \in Instant :
        verify_pin_notifier_raises(pin_data, now)

\* Scoring and challenge with a notifier and a store that can fail.
FaultNext ==
    \/ CheckFraud(FaultCalls)
    \/ VerifyPin(FaultVerifications, Instant)
    \/ CheckFraudNotifierRaises
    \/ CheckFraudInsertRaises
    \/ VerifyPinNotifierRaises

SpecFaults == Init /\ [][FaultNext]_vars

\* C12: when the notifier raises, check_fraud still returns its verdict and
\* reasons, and verify_pin still returns what it returns when the notifier
\* works: success after a correct PIN, the blacklisting result after a wrong one.
C12_Step ==
    /\ \A c \in FaultCalls :
           check_fraud_notifier_raises(c[1], c[2]) =>
               ret' = [op |-> "check_fraud",
                       fraud |-> fraud_verdict(c[1], get_client_ip(c[2]),
                                     blacklist_collection, collection, last_known_location),
                       reasons |-> fraud_reasons(c[1], get_client_ip(c[2]),
                                       blacklist_collection, collection, last_known_location)]
    /\ \A pin_data \in FaultVerifications, now \in Instant :
           verify_pin_notifier_raises(pin_data, now) =>
               ret' = IF hash_password(pin_data.pin) = PinOf(pin_data.account)
                      THEN ret_pin_verified ELSE ret_invalid_pin

C12_NotifierFailureKeepsOutcome == [][C12_Step]_vars

\* C13: when persisting the scored transaction fails, check_fraud is reported
\* as failed and has changed nothing: last_known_location, the transactions
\* and the blacklist are as they were before the call.
C13_Step ==
    \A c \in FaultCalls :
        check_fraud_insert_raises(c[1], c[2]) =>
            /\ ret' = ret_unhandled
            /\ last_known_location' = last_known_location
            /\ collection' = collection
            /\ blacklist_collection' = blacklist_collection

C13_ScoringIsAllOrNothing == [][C13_Step]_vars

(* ------------------------------------------------- two server processes *)

\* check_fraud served by the second process: the same handler and the same
\* database, with that process's own last_known_location.
check_fraud_peer(txn, request) ==
    LET client_ip == get_client_ip(request)
        reasons == fraud_reasons(txn, client_ip, blacklist_collection, collection,
                                 peer_last_known_location)
        is_fraud == fraud_verdict(txn, client_ip, blacklist_collection, collection,
                                  peer_last_known_location)
    IN  /\ peer_last_known_location' =
               update_last_known_location(peer_last_known_location, txn, is_fraud)
        /\ collection' = Append(collection, transaction_doc(txn, client_ip, is_fraud, reasons))
        /\ sms' = fraud_alert(txn, request, is_fraud)
        /\ ret' = [op |-> "check_fraud", fraud |-> is_fraud, reasons |-> reasons]
        /\ UNCHANGED <<blacklist_collection, last_known_location, inflight>>

CheckFraudPeer(calls) ==
    /\ Len(collection) < MaxTxns
    /\ \E c \in calls : check_fraud_peer(c[1], c[2])

\* Calls for one instrument that differ in the location only, from a clean
\* address: no signal but geo drift can fire on them.
RaceCalls ==
    {c \in CheckFraudCalls :
        /\ Changed(c[1]) \subseteq {"location"}
        /\ c[2].forwarded = <<>>
        /\ c[2].authorization = <<>>}

\* Requests for one instrument arriving at two server processes. A handler has
\* no await, so within a process a call runs from its first line to its
\* return before the next one starts.
ProcessesNext == CheckFraud(RaceCalls) \/ CheckFraudPeer(RaceCalls)

SpecProcesses == Init /\ [][ProcessesNext]_vars

\* The baseline of the transaction's instrument in the map lkl and the
\* transaction's location both resolve, more than max_km apart.
Drifted(lkl, txn) ==
    /\ lkl[txn.card_type] \in location_lookup
    /\ txn.location \in location_lookup
    /\ geodesic(lkl[txn.card_type], txn.location) > max_km

\* What a process with the map lkl, lkl2 after the call, does with the call c.
ServedOn(lkl, lkl2, c) ==
    /\ ret'.fraud = Drifted(lkl, c[1])
    /\ ret'.fraud => lkl2 = lkl
    /\ ~ret'.fraud => lkl2[c[1].card_type] = c[1].location

\* C14: two check_fraud calls for one instrument at resolvable locations more
\* than 500 km apart, with no other signal firing, can both be accepted on the
\* baseline that was there before either (the witness), while a process that
\* serves both one after the other flags the second: each call is flagged
\* exactly when it drifted from the baseline of the process serving it, an
\* accepted call sets that baseline and a flagged one leaves it.
C14_Step ==
    \A c \in RaceCalls :
        /\ check_fraud(c[1], c[2]) =>
               ServedOn(last_known_location, last_known_location', c)
        /\ check_fraud_peer(c[1], c[2]) =>
               ServedOn(peer_last_known_location, peer_last_known_location', c)

PrevDoc == collection[Len(collection) - 1]

GeoReason == <<"Geo Drift Detected">>

\* C15: check_fraud does not report geo drift when the transaction's location
\* is not in location_lookup, when last_known_location has nothing for its
\* card_type, or when what it has is not in location_lookup; nor for the first
\* transaction scored for a card_type.
C15_Step ==
    ret'.op = "check_fraud" =>
        LET new == collection'[Len(collection')]
            last_location == last_known_location[new.card_type]
        IN  (\/ new.location \notin location_lookup
             \/ last_location = None
             \/ last_location \notin location_lookup
             \/ \A d \in Docs : d.card_type # new.card_type)
            => /\ GeoReason \notin Reasons(ret'.reasons)
               /\ GeoReason \notin Reasons(new.fraud_reason)

C15_NoGeoFlagWithoutResolvedPair == [][C15_Step]_vars

\* A transaction at a resolvable location has just been accepted on a
\* baseline that does not resolve.
C15_Witness ==
    /\ ret.op = "check_fraud"
    /\ Len(collection) >= 2
    /\ LastDoc.card_type = PrevDoc.card_type
    /\ LastDoc.location \in location_lookup
    /\ PrevDoc.location \notin location_lookup
    /\ ~PrevDoc.is_fraud
    /\ ~LastDoc.is_fraud
    /\ last_known_location[LastDoc.card_type] = LastDoc.location

\* Calls for one instrument from a clean address, at every location of the
\* Geo Reference and at one outside it.
GeoCalls ==
    {<<[BaseTransaction EXCEPT !.location = l],
       [forwarded |-> <<>>, host |-> "10.0.0.1", authorization |-> <<>>]>> :
        l \in location_lookup \cup {"Atlantis"}}

\* One process scoring the transactions of one instrument.
GeoNext == CheckFraud(GeoCalls)

SpecGeo == Init /\ [][GeoNext]_vars

\* C16: with the baseline of an instrument at Chennai, check_fraud for it at
\* Mumbai reports "Geo Drift Detected" with fraud = true and leaves the
\* baseline at Chennai, and check_fraud for it at Chennai does not report geo
\* drift; with both locations in location_lookup, geo drift is reported
\* exactly when their distance is greater than max_km.
C16_Step ==
    ret'.op = "check_fraud" =>
        LET new == collection'[Len(collection')]
            last_location == last_known_location[new.card_type]
            flagged == GeoReason \in Reasons(ret'.reasons)
        IN  /\ (last_location = "Chennai" /\ new.location = "Mumbai") =>
                   /\ flagged
                   /\ ret'.fraud = TRUE
                   /\ last_known_location'[new.card_type] = "Chennai"
            /\ (last_location = "Chennai" /\ new.location = "Chennai") => ~flagged
            /\ (last_location \in location_lookup /\ new.location \in location_lookup) =>
                   (flagged <=> geodesic(last_location, new.location) > max_km)

C16_GeoDriftThreshold == [][C16_Step]_vars

\* Chennai accepted, Mumbai flagged for geo drift, Chennai accepted again.
C16_Witness ==
    /\ Len(collection) = 3
    /\ collection[1].location = "Chennai" /\ ~collection[1].is_fraud
    /\ collection[2].location = "Mumbai"
    /\ collection[2].fraud_reason = <<GeoReason>>
    /\ collection[2].status = "pending"
    /\ collection[3].location = "Chennai" /\ ~collection[3].is_fraud
    /\ last_known_location["visa"] = "Chennai"

(* ------------------------------------------------- the behavioural detector *)

\* How many transactions one instrument's history grows to.
MaxHistory == 6

\* Calls for one instrument from a clean address at a location outside the Geo
\* Reference, to a recipient no one has blacklisted, at each amount.
AmountCalls ==
    {<<[BaseTransaction EXCEPT !.amount = a],
       [forwarded |-> <<>>, host |-> "10.0.0.1", authorization |-> <<>>]>> :
        a \in {10, 11, 20}}

\* A call of /check_fraud while the history is below its bound.
CheckFraudHistory(calls) ==
    /\ Len(collection) < MaxHistory
    /\ \E c \in calls : check_fraud(c[1], c[2])

HistoryNext == CheckFraudHistory(AmountCalls)

SpecHistory == Init /\ [][HistoryNext]_vars

BehavioralReason == <<"Abnormal Amount (Behavioral)">>

\* C17: check_fraud does not report "Abnormal Amount (Behavioral)" when the
\* instrument has fewer than 2 stored transactions or when the amounts of its
\* window (the last window_size of them) are all one amount; and with 5
\* stored transactions of one amount, a transaction at a location outside
\* location_lookup from an address and to a recipient that are not
\* blacklisted is reported with fraud = false and stored as approved.
C17_Step ==
    ret'.op = "check_fraud" =>
        LET new == collection'[Len(collection')]
            amounts == LastN(past_amounts_of(collection, new.card_type), window_size)
            identical == \A i \in 1..Len(amounts) : amounts[i] = amounts[1]
            flagged == BehavioralReason \in Reasons(ret'.reasons)
        IN  /\ (Len(amounts) < 2 \/ identical) => ~flagged
            /\ ( /\ Len(past_amounts_of(collection, new.card_type)) = 5
                 /\ identical
                 /\ new.location \notin location_lookup
                 /\ new.client_ip \notin BLACKLISTED_IPS
                 /\ ~blacklist_find_one(blacklist_collection, new.recipient_account) )
                => (ret'.fraud = FALSE /\ new.status = "approved")

C17_IdenticalWindowNeverFlags == [][C17_Step]_vars

(* ------------------------------------------------- the outcome of verify_pin *)

\* C18: after a verify_pin call that returns success, a stored transaction
\* with the submitted transaction_id has status "approved" and pin_verified
\* true; a correct PIN for a transaction_id that no stored transaction has
\* does not return success.
C18_Step(pin_data) ==
    LET stored(coll) == {d \in {coll[i] : i \in 1..Len(coll)} :
                            d.transaction_id = pin_data.transaction.transaction_id}
    IN  /\ ret'.success =>
               \E d \in stored(collection') : d.status = "approved" /\ d.pin_verified
        /\ stored(collection) = {} => ~ret'.success

C18_SuccessMeansStoredApproved ==
    [][\A pin_data \in PinVerification, now \in Times :
          verify_pin(pin_data, now) => C18_Step(pin_data)]_vars

\* C19: a stored transaction with status "approved" keeps that status in
\* every step of check_fraud and verify_pin, and a verify_pin step leaves
\* is_fraud and fraud_reason of every stored transaction as they were.
C19_Step ==
    /\ Len(collection') >= Len(collection)
    /\ \A i \in 1..Len(collection) :
           /\ collection[i].status = "approved" => collection'[i].status = "approved"
           /\ ret'.op = "verify_pin" =>
                  /\ collection'[i].is_fraud = collection[i].is_fraud
                  /\ collection'[i].fraud_reason = collection[i].fraud_reason

C19_ApprovedAbsorbingVerdictImmutable == [][C19_Step]_vars

\* A flagged transaction has been approved by PIN, and a later check_fraud has
\* stored another one: the first is still approved, with is_fraud true and
\* its reasons.
C19_Witness ==
    /\ ret.op = "check_fraud"
    /\ Len(collection) >= 2
    /\ collection[1].status = "approved"
    /\ collection[1].verified_at # NoTime
    /\ collection[1].is_fraud
    /\ collection[1].fraud_reason # <<>>

(* ------------------------------------------ a baseline that does not resolve *)

\* C20: a check_fraud that finds no fraud at a location outside
\* location_lookup sets last_known_location of the instrument to that
\* location, and the check_fraud that follows for the instrument does not
\* report "Geo Drift Detected", wherever it is: after Chennai accepted and
\* an unknown location accepted, Mumbai is not flagged for geo drift.
C20_Step ==
    ret'.op = "check_fraud" =>
        LET new == collection'[Len(collection')]
            last_location == last_known_location[new.card_type]
        IN  /\ (~ret'.fraud /\ new.location \notin location_lookup) =>
                   last_known_location'[new.card_type] = new.location
            /\ (last_location # None /\ last_location \notin location_lookup) =>
                   GeoReason \notin Reasons(ret'.reasons)
            /\ ( /\ Len(collection) = 2
                 /\ collection[1].location = "Chennai" /\ ~collection[1].is_fraud
                 /\ collection[2].location \notin location_lookup /\ ~collection[2].is_fraud
                 /\ collection[1].card_type = new.card_type
                 /\ collection[2].card_type = new.card_type
                 /\ new.location = "Mumbai" )
                => GeoReason \notin Reasons(ret'.reasons)

C20_UnresolvableBaselineHidesDrift == [][C20_Step]_vars

\* Chennai accepted, an unknown location accepted, then Mumbai accepted, 1031
\* km from Chennai.
C20_Witness ==
    /\ Len(collection) = 3
    /\ collection[1].location = "Chennai" /\ ~collection[1].is_fraud
    /\ collection[2].location = "Atlantis" /\ ~collection[2].is_fraud
    /\ collection[3].location = "Mumbai" /\ ~collection[3].is_fraud
    /\ collection[3].status = "approved"
    /\ last_known_location["visa"] = "Mumbai"

====
